---- MODULE Spec2Model ----
(***************************************************************************)
(* Model of the Lambda Lets-Encrypt configuration wizard (wizard.py):      *)
(* the nine configuration steps, the review/edit loop, wizard_save_config, *)
(* create_lambda_zip and the --update-lambda path.                         *)
(*                                                                         *)
(* global_config is a Python dict: it is modelled as a function whose      *)
(* DOMAIN is the set of keys assigned so far.  Python None and False are   *)
(* the sentinels NoneVal and FalseVal.  An uncaught exception ends the     *)
(* process: it is recorded in exc, and state keeps the phase it was        *)
(* raised in.                                                              *)
(***************************************************************************)
EXTENDS Integers, Sequences, FiniteSets, TLC

VARIABLES
    state,   \* COLLECTING, REVIEWING, EDITING, FINALIZING or DONE; UPDATING in update_lambda
    gc,      \* global_config
    ran,     \* the step functions the initial pass has completed, in order
    edits,   \* number of steps re-run from the review loop
    exc,     \* NoneVal, or the uncaught exception that ended the process
    calls,   \* remote calls, sleeps and file writes made so far, in order
    disk,    \* the files this program writes: path -> content
    tty      \* the prompt of terminal.py that is being answered line by line,
             \* NoneVal where a prompt is taken as the value it returns

vars == <<state, gc, ran, edits, exc, calls, disk, tty>>

----------------------------------------------------------------------------
(* Bounds *)

MaxEdits == 1     \* steps re-run from the review loop in one session
MaxTyped == 3     \* lines typed at one prompt

----------------------------------------------------------------------------
(* Python values *)

NoneVal == "<None>"
FalseVal == "<False>"

Put(g, k, v) == [x \in (DOMAIN g) \cup {k} |-> IF x = k THEN v ELSE g[x]]

Remove(g, k) == [x \in (DOMAIN g) \ {k} |-> g[x]]

Range(s) == {s[i] : i \in DOMAIN s}

\* "<prefix>{}".format(namespace), for the three prefixes wizard.py uses
Format(prefix, ns) ==
    CASE prefix = "lambda-letsencrypt-" /\ ns = "acme" -> "lambda-letsencrypt-acme"
      [] prefix = "lambda-letsencrypt-" /\ ns = "beta" -> "lambda-letsencrypt-beta"
      [] prefix = "lambda-letsencrypt-config-" /\ ns = "acme" -> "lambda-letsencrypt-config-acme"
      [] prefix = "lambda-letsencrypt-config-" /\ ns = "beta" -> "lambda-letsencrypt-config-beta"
      [] prefix = "lambda-letsencrypt-challenges-" /\ ns = "acme" -> "lambda-letsencrypt-challenges-acme"
      [] prefix = "lambda-letsencrypt-challenges-" /\ ns = "beta" -> "lambda-letsencrypt-challenges-beta"

----------------------------------------------------------------------------
(* File names, wizard.py:27-32 *)

acme_challenge_file_name == "simple_acme.py"
lambda_file_name == "lambda_function.py"
zip_file_name == "lambda-letsencrypt-dist.zip"
config_file_template_name == "config.py.dist"
generated_config_file_name == "config-wizard.py"
config_file_name == "config.py"

----------------------------------------------------------------------------
(* Operator input and the answers of the external provisioner *)

NamespaceInputs == {"acme", "beta"}
EmailInputs == {"", "ops@example.com"}
PortInputs == {"", "8443"}

\* The selections the operator types in a selection loop before the blank
\* line that ends it, as positions in the list shown
DistScripts == { <<>>, <<1>> }
LbScripts == { <<>>, <<1>> }
ZoneScripts == { <<>>, <<1>>, <<1, 1>> }

\* The same with an entry selected a second time
RepeatDistScripts == { <<>>, <<1>>, <<2>>, <<1, 1>> }
RepeatLbScripts == { <<>>, <<1>>, <<1, 1>> }

region_names == <<"us-east-1", "eu-west-1">>
bucket_list == <<"bkt-a">>
role_list == <<"role-a">>
cf_dist_list ==
    << [Id |-> "E1", Comment |-> "site", Aliases |-> <<"a.example.com">>],
       [Id |-> "E2", Comment |-> "shop", Aliases |-> <<"b.example.com", "a.example.com">>] >>
elb_list == <<"lb1">>
function_names == <<"lambda-letsencrypt-acme", "lambda-other">>
route53_list == << [Name |-> "a.example.com.", Id |-> "Z1"] >>

\* What route53.get_zone_id(dns_name) answers at wizard.py:192: the zone
\* id, or None when no zone hosts the name
get_zone_id(dns_name) ==
    IF dns_name = "a.example.com" THEN "Z1" ELSE NoneVal

\* The files at the two paths the program writes, when it starts
InitialDisks ==
    { <<>>,
      [x \in {zip_file_name, generated_config_file_name} |->
         IF x = zip_file_name THEN <<"old_member.py">> ELSE [OLD |-> "old"]] }

----------------------------------------------------------------------------
(* terminal.py *)

\* get_yn: the answers "", "y", "yes" and anything else give a boolean
get_yn == BOOLEAN

\* get_selection: what it can return, as the position of the option whose
\* selector the operator typed (the caller reads options[i], the option's
\* 'return'), or 0 for the None an empty line gives when allow_empty.
\* Any other input repeats the prompt.
get_selection(options, allow_empty) ==
    (DOMAIN options) \cup (IF allow_empty THEN {0} ELSE {})

\* get_input: with allow_empty = False only a non-empty line is returned
get_input(inputs, allow_empty) ==
    IF allow_empty THEN inputs ELSE inputs \ {""}

----------------------------------------------------------------------------
(* The configuration steps.  Each gives the set of its outcomes            *)
(* [g |-> global_config afterwards, raised |-> an exception escaped].      *)

Returned(g) == [g |-> g, raised |-> FALSE]
Raised(g) == [g |-> g, raised |-> TRUE]

wizard_namespace(g) ==
    { Returned(Put(g, "namespace", namespace)) :
        namespace \in get_input(NamespaceInputs, FALSE) }

choose_aws_region ==
    {[value |-> NoneVal, raised |-> TRUE]} \cup
    {[value |-> region_names[i], raised |-> FALSE] : i \in get_selection(region_names, FALSE)}

wizard_region(g) ==
    { IF c.raised THEN Raised(g) ELSE Returned(Put(g, "aws_region", c.value)) :
        c \in choose_aws_region }

\* wizard_sns that leaves use_sns at its initial True
wizard_sns_always_on(g) ==
    { LET use_sns == TRUE
      IN  Returned(Put(Put(g, "use_sns", use_sns), "sns_email", sns_email)) :
        sns_email \in get_input(EmailInputs, TRUE) }

wizard_sns(g) ==
    { LET use_sns == (sns_email # "")
      IN  Returned(Put(Put(g, "use_sns", use_sns), "sns_email", sns_email)) :
        sns_email \in get_input(EmailInputs, TRUE) }

choose_s3_bucket ==
    {[value |-> NoneVal, raised |-> TRUE]} \cup
    {[value |-> bucket_list[i], raised |-> FALSE] : i \in get_selection(bucket_list, FALSE)}

wizard_s3_cfg_bucket(g) ==
    UNION { IF create_s3_cfg_bucket
            THEN IF "namespace" \in DOMAIN g
                 THEN { Returned(Put(Put(g, "create_s3_cfg_bucket", TRUE), "s3_cfg_bucket",
                                     Format("lambda-letsencrypt-config-", g.namespace))) }
                 ELSE { Raised(g) }
            ELSE { IF c.raised THEN Raised(g)
                   ELSE Returned(Put(Put(g, "create_s3_cfg_bucket", FALSE), "s3_cfg_bucket", c.value)) :
                     c \in choose_s3_bucket } :
        create_s3_cfg_bucket \in get_yn }

wizard_iam(g) ==
    UNION { IF ~create_iam_role
            THEN {Raised(g)} \cup
                 { Returned(Put(Put(g, "create_iam_role", FALSE), "iam_role_name", role_list[i])) :
                     i \in get_selection(role_list, FALSE) }
            ELSE IF "namespace" \in DOMAIN g
                 THEN { Returned(Put(Put(g, "create_iam_role", TRUE), "iam_role_name",
                                     Format("lambda-letsencrypt-", g.namespace))) }
                 ELSE { Raised(g) } :
        create_iam_role \in get_yn }

challenges_set(g, use_http, create, bucket) ==
    Put(Put(Put(g, "use_http_challenges", use_http),
            "create_s3_challenge_bucket", create),
        "s3_challenge_bucket", bucket)

\* wizard_challenges that asks about the bucket whatever the first answer
wizard_challenges_asks_anyway(g) ==
    UNION { UNION { IF create_s3_challenge_bucket
                    THEN IF "namespace" \in DOMAIN g
                         THEN { Returned(challenges_set(g, use_http_challenges, TRUE,
                                   Format("lambda-letsencrypt-challenges-", g.namespace))) }
                         ELSE { Raised(g) }
                    ELSE { IF c.raised THEN Raised(g)
                           ELSE Returned(challenges_set(g, use_http_challenges, FALSE, c.value)) :
                             c \in choose_s3_bucket } :
                create_s3_challenge_bucket \in get_yn } :
        use_http_challenges \in get_yn }

wizard_challenges(g) ==
    UNION { IF use_http_challenges
            THEN UNION { IF create_s3_challenge_bucket
                         THEN IF "namespace" \in DOMAIN g
                              THEN { Returned(challenges_set(g, TRUE, TRUE,
                                        Format("lambda-letsencrypt-challenges-", g.namespace))) }
                              ELSE { Raised(g) }
                         ELSE { IF c.raised THEN Raised(g)
                                ELSE Returned(challenges_set(g, TRUE, FALSE, c.value)) :
                                  c \in choose_s3_bucket } :
                     create_s3_challenge_bucket \in get_yn }
            ELSE { Returned(challenges_set(g, FALSE, FALSE, NoneVal)) } :
        use_http_challenges \in get_yn }

\* cf_domain that stores the zone id as soon as a zone is detected,
\* whatever the operator answers
cf_domain_keeps_zone(dist, dns_name) ==
    LET route53_id == get_zone_id(dns_name)
        dns_answers == IF route53_id # NoneVal THEN get_yn ELSE {FALSE}
        rec(validate_via_dns, validate_via_http) ==
            [k \in {"DOMAIN", "VALIDATION_METHODS"}
                   \cup (IF route53_id # NoneVal THEN {"ROUTE53_ZONE_ID"} ELSE {})
                   \cup (IF validate_via_http THEN {"CLOUDFRONT_ID"} ELSE {}) |->
                CASE k = "DOMAIN" -> dns_name
                  [] k = "VALIDATION_METHODS" ->
                        (IF validate_via_dns THEN <<"dns-01">> ELSE <<>>)
                        \o (IF validate_via_http THEN <<"http-01">> ELSE <<>>)
                  [] k = "ROUTE53_ZONE_ID" -> route53_id
                  [] k = "CLOUDFRONT_ID" -> dist.Id]
    IN  {[raised |-> TRUE]} \cup
        {[raised |-> FALSE, domain |-> rec(d, h)] : d \in dns_answers, h \in get_yn}

\* One alias of the selected distribution, wizard.py:187-210: the Domain
\* records it can append, or Raised when resolve-zone-for-domain fails.
cf_domain(dist, dns_name) ==
    LET route53_id == get_zone_id(dns_name)
        dns_answers == IF route53_id # NoneVal THEN get_yn ELSE {FALSE}
        rec(validate_via_dns, validate_via_http) ==
            [k \in {"DOMAIN", "VALIDATION_METHODS"}
                   \cup (IF validate_via_dns THEN {"ROUTE53_ZONE_ID"} ELSE {})
                   \cup (IF validate_via_http THEN {"CLOUDFRONT_ID"} ELSE {}) |->
                CASE k = "DOMAIN" -> dns_name
                  [] k = "VALIDATION_METHODS" ->
                        (IF validate_via_dns THEN <<"dns-01">> ELSE <<>>)
                        \o (IF validate_via_http THEN <<"http-01">> ELSE <<>>)
                  [] k = "ROUTE53_ZONE_ID" -> route53_id
                  [] k = "CLOUDFRONT_ID" -> dist.Id]
    IN  {[raised |-> TRUE]} \cup
        {[raised |-> FALSE, domain |-> rec(d, h)] : d \in dns_answers, h \in get_yn}

\* A site that lists the first alias only
cf_site_first_alias(dist) ==
    [CLOUDFRONT_ID |-> dist.Id, DOMAINS |-> SubSeq(dist.Aliases, 1, 1)]

\* The site of a selected distribution, wizard.py:211-214
cf_site(dist) == [CLOUDFRONT_ID |-> dist.Id, DOMAINS |-> dist.Aliases]

\* The loop over the aliases from position i on, wizard.py:186-210;
\* g holds the lists as mutated so far.
RECURSIVE cf_aliases(_, _, _)
cf_aliases(g, dist, i) ==
    IF i > Len(dist.Aliases) THEN { Returned(g) }
    ELSE UNION { IF o.raised THEN { Raised(g) }
                 ELSE cf_aliases(Put(g, "cf_domains", Append(g.cf_domains, o.domain)), dist, i + 1) :
                   o \in cf_domain(dist, dist.Aliases[i]) }

\* The selection loop, wizard.py:171-215: the operator selects the
\* distributions of script one after the other and then enters a blank line
RECURSIVE cf_loop(_, _)
cf_loop(g, script) ==
    IF script = <<>> THEN { Returned(g) }
    ELSE LET dist == cf_dist_list[Head(script)]
             site == cf_site(dist)
         IN  UNION { IF o.raised THEN { o }
                     ELSE cf_loop(Put(o.g, "cf_sites", Append(o.g.cf_sites, site)), Tail(script)) :
                       o \in cf_aliases(g, dist, 1) }

\* wizard_cf that empties cf_domains and keeps the sites it finds
wizard_cf_keeps_sites(g, scripts) ==
    LET g0 == Put(Put(g, "cf_sites", IF "cf_sites" \in DOMAIN g THEN g.cf_sites ELSE <<>>),
                  "cf_domains", <<>>)
    IN  { Raised(g0) }
        \cup UNION { cf_loop(g0, script) : script \in scripts }

\* wizard_cf with the operator's selections taken from scripts
wizard_cf_with(g, scripts) ==
    LET g0 == Put(Put(g, "cf_sites", <<>>), "cf_domains", <<>>)
    IN  { Raised(g0) }                       \* cloudfront.list_distributions fails
        \cup UNION { cf_loop(g0, script) : script \in scripts }

wizard_cf(g) == wizard_cf_with(g, DistScripts)

\* The zone loop of one load balancer, wizard.py:118-135: the operator
\* selects the zones of script and then enters a blank line; domains is the
\* site's list, g.elb_domains the global one.
RECURSIVE elb_zones(_, _, _)
elb_zones(g, domains, script) ==
    IF script = <<>> THEN [g |-> g, domains |-> domains]
    ELSE LET zone == route53_list[Head(script)]
         IN  IF zone.Name \in Range(domains)
             THEN elb_zones(g, domains, Tail(script))
             ELSE elb_zones(Put(g, "elb_domains", Append(g.elb_domains,
                                  [DOMAIN |-> zone.Name,
                                   ROUTE53_ZONE_ID |-> zone.Id,
                                   VALIDATION_METHODS |-> <<"dns-01">>])),
                            Append(domains, zone.Name), Tail(script))

\* lb_port: the line typed, or the integer 443 for an empty line
elb_port(line) == IF line = "" THEN [int |-> 443] ELSE [str |-> line]

\* The selection loop, wizard.py:106-142: the operator selects the load
\* balancers of script and then enters a blank line
RECURSIVE elb_loop(_, _)
elb_loop(g, script) ==
    IF script = <<>> THEN { Returned(g) }
    ELSE UNION { LET z == elb_zones(g, <<>>, zones)
                 IN  elb_loop(Put(z.g, "elb_sites", Append(z.g.elb_sites,
                                    [ELB_NAME |-> elb_list[Head(script)],
                                     ELB_PORT |-> elb_port(lb_port),
                                     DOMAINS |-> z.domains])), Tail(script)) :
                   lb_port \in get_input(PortInputs, TRUE), zones \in ZoneScripts }

\* wizard_elb with the operator's selections taken from scripts
wizard_elb_with(g, scripts) ==
    LET g0 == Put(Put(g, "elb_sites", <<>>), "elb_domains", <<>>)
    IN  { Raised(g0) }                       \* elb.list_elbs or route53.list_zones fails
        \cup UNION { elb_loop(g0, script) : script \in scripts }

wizard_elb(g) == wizard_elb_with(g, LbScripts)

wizard_trigger(g) ==
    { Returned(Put(g, "create_cloudwatch_rule", create_cloudwatch_rule)) :
        create_cloudwatch_rule \in get_yn }

----------------------------------------------------------------------------
(* create_lambda_zip, wizard.py:518-552 *)

\* The manifest's two source files, in the order they are added
zip_sources == << lambda_file_name, acme_challenge_file_name >>

\* create_lambda_zip that opens the archive to append, without removing it
create_lambda_zip_append(d, present) ==
    LET before == IF zip_file_name \in DOMAIN d THEN d[zip_file_name] ELSE <<>>
        n == IF zip_sources[1] \notin present THEN 0
             ELSE IF zip_sources[2] \notin present THEN 1 ELSE 2
        archive_success == (n = Len(zip_sources))
        members == SubSeq(zip_sources, 1, n)
                   \o (IF archive_success THEN << config_file_name >> ELSE <<>>)
    IN  IF generated_config_file_name \notin DOMAIN d
        THEN [disk |-> d, ok |-> FALSE]
        ELSE [disk |-> Put(d, zip_file_name, before \o members), ok |-> archive_success]

\* d is the disk before the call and present the source files that exist
\* when they are read.  An archive is the sequence of its member names.
create_lambda_zip(d, present) ==
    LET removed == Remove(d, zip_file_name)
        n == IF zip_sources[1] \notin present THEN 0
             ELSE IF zip_sources[2] \notin present THEN 1 ELSE 2
        archive_success == (n = Len(zip_sources))
        members == SubSeq(zip_sources, 1, n)
                   \o (IF archive_success THEN << config_file_name >> ELSE <<>>)
    IN  IF generated_config_file_name \notin DOMAIN removed
        THEN [disk |-> removed, ok |-> FALSE]
        ELSE [disk |-> Put(removed, zip_file_name, members), ok |-> archive_success]

----------------------------------------------------------------------------
(* wizard_save_config, wizard.py:408-515, as the set of its complete runs. *)
(* A run is a record l: the calls made and the disk so far, the local      *)
(* variables, and st = "run" while the function is still executing,        *)
(* "return" after an early return, else the exception that escaped.        *)
(* calls also records the template read (arg is the set of placeholder     *)
(* names it references) and what create_lambda_zip returned.               *)

Call(op, arg, ok) == [op |-> op, arg |-> arg, ok |-> ok]

Did(l, c) == [l EXCEPT !.calls = Append(@, c)]

Stop(l, st) == [l EXCEPT !.st = st]

\* Run stage F on every run of S that is still executing
Then(S, F(_)) == UNION { IF l.st = "run" THEN F(l) ELSE {l} : l \in S }

\* The placeholder names a config.py.dist can reference
Templates ==
    { { "AWS_REGION", "SNS_ARN", "NOTIFY_EMAIL", "S3_CONFIG_BUCKET",
        "S3_CHALLENGE_BUCKET", "DOMAINS", "SITES" },
      { "AWS_REGION", "SNS_ARN", "NOTIFY_EMAIL", "S3_CONFIG_BUCKET",
        "S3_CHALLENGE_BUCKET", "DOMAINS", "SITES", "DIRECTORY_URL" } }

TopicArn == "arn:aws:sns:topic"

\* json.dumps that writes the items of a list last to first
json_dumps_reversed(value) ==
    << "json", [i \in 1..Len(value) |-> value[Len(value) + 1 - i]] >>

\* json.dumps(value, indent=4): the text that encodes value
json_dumps(value) == << "json", value >>

\* wizard.py:410-416
save_open(g, d) ==
    LET l0 == [calls |-> <<>>, disk |-> d, st |-> "run", sns_arn |-> NoneVal,
               configfile |-> {},
               templatevars |-> [x \in {"SNS_ARN", "NOTIFY_EMAIL", "AWS_REGION"} |->
                                   IF x = "AWS_REGION" THEN g.aws_region ELSE NoneVal]]
    IN  { Stop(l0, "IOError") }         \* the template cannot be read
        \cup { [Did(l0, Call("Template", t, TRUE)) EXCEPT !.configfile = t] : t \in Templates }

\* save_sns that stores the address although no topic was obtained
save_sns_keeps_email(g, l) ==
    IF g.sns_email # ""
    THEN { [Did(l, Call("sns.get_or_create_topic", g.sns_email, TRUE)) EXCEPT
               !.sns_arn = TopicArn,
               !.templatevars = Put(Put(@, "SNS_ARN", TopicArn), "NOTIFY_EMAIL", g.sns_email)],
           [Did(l, Call("sns.get_or_create_topic", g.sns_email, FALSE)) EXCEPT
               !.sns_arn = FalseVal,
               !.templatevars = Put(@, "NOTIFY_EMAIL", g.sns_email)],
           Stop(Did(l, Call("sns.get_or_create_topic", g.sns_email, FALSE)), "Exception") }
    ELSE { l }

\* wizard.py:418-429
save_sns(g, l) ==
    IF g.sns_email # ""
    THEN { [Did(l, Call("sns.get_or_create_topic", g.sns_email, TRUE)) EXCEPT
               !.sns_arn = TopicArn,
               !.templatevars = Put(Put(@, "SNS_ARN", TopicArn), "NOTIFY_EMAIL", g.sns_email)],
           [Did(l, Call("sns.get_or_create_topic", g.sns_email, FALSE)) EXCEPT
               !.sns_arn = FalseVal],
           Stop(Did(l, Call("sns.get_or_create_topic", g.sns_email, FALSE)), "Exception") }
    ELSE { l }

\* wizard.py:431-435; what s3.create_bucket returns is not looked at, so
\* the call either returns or raises
save_cfg_bucket(g, l) ==
    IF g.create_s3_cfg_bucket
    THEN { Did(l, Call("s3.create_bucket", g.s3_cfg_bucket, TRUE)),
           Stop(Did(l, Call("s3.create_bucket", g.s3_cfg_bucket, FALSE)), "Exception") }
    ELSE { l }

\* wizard.py:437-441
save_challenge_bucket(g, l) ==
    IF g.create_s3_challenge_bucket
    THEN { Did(l, Call("s3.create_web_bucket", g.s3_challenge_bucket, TRUE)),
           Stop(Did(l, Call("s3.create_web_bucket", g.s3_challenge_bucket, FALSE)), "Exception") }
    ELSE { l }

\* save_iam with the last of the three sleeps left out
save_iam_short_wait(g, l) ==
    IF g.create_iam_role
    THEN { Did(Did(Did(l, Call("iam.configure", g.iam_role_name, TRUE)),
                   Call("time.sleep", "5", TRUE)),
               Call("time.sleep", "5", TRUE)),
           Stop(Did(l, Call("iam.configure", g.iam_role_name, FALSE)), "Exception") }
    ELSE { l }

\* wizard.py:443-459
save_iam(g, l) ==
    IF g.create_iam_role
    THEN { Did(Did(Did(Did(l, Call("iam.configure", g.iam_role_name, TRUE)),
                       Call("time.sleep", "5", TRUE)),
                   Call("time.sleep", "5", TRUE)),
               Call("time.sleep", "5", TRUE)),
           Stop(Did(l, Call("iam.configure", g.iam_role_name, FALSE)), "Exception") }
    ELSE { l }

\* save_render with Template.safe_substitute, which leaves a placeholder
\* that templatevars lacks in the text and does not raise
save_render_safe(g, l) ==
    LET tv == Put(Put(Put(Put(l.templatevars,
                    "S3_CONFIG_BUCKET", g.s3_cfg_bucket),
                    "S3_CHALLENGE_BUCKET", g.s3_challenge_bucket),
                    "DOMAINS", json_dumps(g.cf_domains \o g.elb_domains)),
                    "SITES", json_dumps(g.cf_sites \o g.elb_sites))
        config == [x \in l.configfile \cap DOMAIN tv |-> tv[x]]
    IN  { [Did(l, Call("write", generated_config_file_name, TRUE)) EXCEPT
              !.templatevars = tv,
              !.disk = Put(@, generated_config_file_name, config)] }

\* wizard.py:461-474: Template.substitute raises KeyError for a placeholder
\* that templatevars lacks; the text written maps each placeholder of the
\* template to its value
save_render(g, l) ==
    LET tv == Put(Put(Put(Put(l.templatevars,
                    "S3_CONFIG_BUCKET", g.s3_cfg_bucket),
                    "S3_CHALLENGE_BUCKET", g.s3_challenge_bucket),
                    "DOMAINS", json_dumps(g.cf_domains \o g.elb_domains)),
                    "SITES", json_dumps(g.cf_sites \o g.elb_sites))
        substitute == l.configfile \subseteq DOMAIN tv
        config == [x \in l.configfile |-> tv[x]]
    IN  IF substitute
        THEN { [Did(l, Call("write", generated_config_file_name, TRUE)) EXCEPT
                   !.templatevars = tv,
                   !.disk = Put(@, generated_config_file_name, config)] }
        ELSE { Stop([l EXCEPT !.templatevars = tv], "KeyError") }

\* save_zip that goes on whatever create_lambda_zip returned
save_zip_unchecked(l) ==
    { LET z == create_lambda_zip(l.disk, present)
      IN  Did([l EXCEPT !.disk = z.disk], Call("create_lambda_zip", zip_file_name, z.ok)) :
        present \in SUBSET Range(zip_sources) }

\* wizard.py:476-477 and 557-558: package, and return when that fails
save_zip(l) ==
    { LET z == create_lambda_zip(l.disk, present)
          l1 == Did([l EXCEPT !.disk = z.disk], Call("create_lambda_zip", zip_file_name, z.ok))
      IN  IF z.ok THEN l1 ELSE Stop(l1, "return") :
        present \in SUBSET Range(zip_sources) }

LambdaArn == "arn:aws:lambda:function"

\* What lambda_c.create_function answers for a function it created,
\* awslambda.py:10-27: the name asked for and the function's ARN
create_function(name) == [FunctionName |-> name, FunctionArn |-> LambdaArn]

\* wizard.py:479-489; lambda_function is what awslambda.create_function
\* returned
save_function(g, l) ==
    LET lambda_function_name == Format("lambda-letsencrypt-", g.namespace)
        arn == Did(l, Call("iam.get_arn", g.iam_role_name, TRUE))
    IN  { Stop(Did(l, Call("iam.get_arn", g.iam_role_name, FALSE)), "Exception"),
          Put(Did(arn, Call("awslambda.create_function", lambda_function_name, TRUE)),
              "lambda_function", create_function(lambda_function_name)),
          Stop(Did(arn, Call("awslambda.create_function", lambda_function_name, FALSE)), "return") }

\* save_trigger that does not look at create_cloudwatch_rule
save_trigger_always(g, l) ==
    LET lambda_function_name == l.lambda_function.FunctionName
        lambda_function_arn == l.lambda_function.FunctionArn
        rule == Did(l, Call("events.put_rule", lambda_function_name, TRUE))
    IN  { Stop(Did(l, Call("events.put_rule", lambda_function_name, FALSE)), "Exception"),
          Stop(Did(rule, Call("events.put_targets", lambda_function_arn, FALSE)), "Exception"),
          Did(rule, Call("events.put_targets", lambda_function_arn, TRUE)) }

\* wizard.py:491-499 and cloud_watch_events.py:6-28: the rule is named
\* after lambda_function['FunctionName'] and its target is
\* lambda_function['FunctionArn']
save_trigger(g, l) ==
    LET lambda_function_name == l.lambda_function.FunctionName
        lambda_function_arn == l.lambda_function.FunctionArn
        rule == Did(l, Call("events.put_rule", lambda_function_name, TRUE))
    IN  IF g.create_cloudwatch_rule
        THEN { Stop(Did(l, Call("events.put_rule", lambda_function_name, FALSE)), "Exception"),
               Stop(Did(rule, Call("events.put_targets", lambda_function_arn, FALSE)), "Exception"),
               Did(rule, Call("events.put_targets", lambda_function_arn, TRUE)) }
        ELSE { l }

wizard_save_config(g, d) ==
    LET s1 == save_open(g, d)
        sns(l) == save_sns(g, l)
        cfg(l) == save_cfg_bucket(g, l)
        chl(l) == save_challenge_bucket(g, l)
        iam(l) == save_iam(g, l)
        ren(l) == save_render(g, l)
        zip(l) == save_zip(l)
        fun(l) == save_function(g, l)
        trg(l) == save_trigger(g, l)
        end(l) == { Stop(l, "return") }
    IN  Then(Then(Then(Then(Then(Then(Then(Then(Then(s1, sns), cfg), chl), iam), ren), zip), fun), trg), end)

----------------------------------------------------------------------------
(* update_lambda, wizard.py:555-565, as the set of its complete runs *)

\* wizard.py:61-71 and awslambda.py:46-51
choose_lambda_function_for_update ==
    {[value |-> NoneVal, raised |-> TRUE]} \cup
    {[value |-> function_names[i], raised |-> FALSE] :
        i \in get_selection(function_names, FALSE)}

\* update_upload that tries the upload a second time when it failed
update_upload_retry(l) ==
    UNION { IF fn.raised THEN { Stop(l, "Exception") }
            ELSE { Did(l, Call("awslambda.update_function_code", fn.value, TRUE)),
                   Did(Did(l, Call("awslambda.update_function_code", fn.value, FALSE)),
                       Call("awslambda.update_function_code", fn.value, TRUE)) } :
        fn \in choose_lambda_function_for_update }

\* wizard.py:559-565
update_upload(l) ==
    UNION { IF fn.raised THEN { Stop(l, "Exception") }
            ELSE { Did(l, Call("awslambda.update_function_code", fn.value, TRUE)),
                   Stop(Did(l, Call("awslambda.update_function_code", fn.value, FALSE)),
                        "return") } :
        fn \in choose_lambda_function_for_update }

update_lambda(d) ==
    LET end(l) == { Stop(l, "return") }
    IN  Then(Then(save_zip([calls |-> <<>>, disk |-> d, st |-> "run"]), update_upload), end)

----------------------------------------------------------------------------
(* wizard(): the initial pass and the review/edit loop *)

\* The initial pass with the load balancers asked before the distributions
InitialOrder_elb_first ==
    << "wizard_namespace", "wizard_region", "wizard_sns", "wizard_iam",
       "wizard_s3_cfg_bucket", "wizard_challenges", "wizard_elb", "wizard_cf",
       "wizard_trigger" >>

\* wizard.py:597-605, the calls of the initial pass in program order
InitialOrder ==
    << "wizard_namespace", "wizard_region", "wizard_sns", "wizard_iam",
       "wizard_s3_cfg_bucket", "wizard_challenges", "wizard_cf", "wizard_elb",
       "wizard_trigger" >>

\* wizard.py:607-618; an option's selector is its position minus one
cfg_menu ==
    << [selector |-> 0, prompt |-> "Namespace", return |-> "wizard_namespace"],
       [selector |-> 1, prompt |-> "AWS Region", return |-> "wizard_region"],
       [selector |-> 2, prompt |-> "SNS", return |-> "wizard_sns"],
       [selector |-> 3, prompt |-> "IAM", return |-> "wizard_iam"],
       [selector |-> 4, prompt |-> "S3 Config", return |-> "wizard_s3_cfg_bucket"],
       [selector |-> 5, prompt |-> "Challenges", return |-> "wizard_challenges"],
       [selector |-> 6, prompt |-> "CloudFront", return |-> "wizard_cf"],
       [selector |-> 7, prompt |-> "Elastic Load Balancers", return |-> "wizard_cf"],
       [selector |-> 8, prompt |-> "Lambda function trigger", return |-> "wizard_trigger"],
       [selector |-> 9, prompt |-> "Done", return |-> NoneVal] >>

\* Calling a step function by name; dists and lbs are the selections the
\* operator can make in the two selection loops
StepOutcomesWith(fn, g, dists, lbs) ==
    CASE fn = "wizard_namespace" -> wizard_namespace(g)
      [] fn = "wizard_region" -> wizard_region(g)
      [] fn = "wizard_sns" -> wizard_sns(g)
      [] fn = "wizard_iam" -> wizard_iam(g)
      [] fn = "wizard_s3_cfg_bucket" -> wizard_s3_cfg_bucket(g)
      [] fn = "wizard_challenges" -> wizard_challenges(g)
      [] fn = "wizard_cf" -> wizard_cf_with(g, dists)
      [] fn = "wizard_elb" -> wizard_elb_with(g, lbs)
      [] fn = "wizard_trigger" -> wizard_trigger(g)

StepOutcomes(fn, g) == StepOutcomesWith(fn, g, DistScripts, LbScripts)

\* The keys wizard_summary reads, wizard.py:369-405 (line 370 prints the
\* namespace under the region's label, so aws_region is not read)
wizard_summary(g) ==
    { "namespace", "sns_email", "s3_cfg_bucket", "create_s3_cfg_bucket",
      "create_iam_role", "iam_role_name", "use_http_challenges",
      "cf_domains", "elb_domains", "cf_sites", "elb_sites",
      "create_cloudwatch_rule" }
    \cup (IF "use_http_challenges" \in DOMAIN g /\ g.use_http_challenges
          THEN {"s3_challenge_bucket", "create_s3_challenge_bucket"} ELSE {})

\* wizard.py:633-638: --update-lambda starts update_lambda(), anything
\* else wizard()
Init ==
    /\ state \in {"COLLECTING", "UPDATING"}
    /\ gc = <<>>
    /\ ran = <<>>
    /\ edits = 0
    /\ exc = NoneVal
    /\ calls = <<>>
    /\ disk \in InitialDisks
    /\ tty = NoneVal

\* One call of the initial pass, wizard.py:597-605
InitialStepWith(dists, lbs) ==
    /\ state = "COLLECTING"
    /\ exc = NoneVal
    /\ LET fn == InitialOrder[Len(ran) + 1]
       IN  \E o \in StepOutcomesWith(fn, gc, dists, lbs) :
             /\ gc' = o.g
             /\ IF o.raised
                THEN /\ exc' = "Exception"
                     /\ UNCHANGED <<state, ran>>
                ELSE /\ ran' = Append(ran, fn)
                     /\ state' = IF Len(ran') = Len(InitialOrder)
                                 THEN "REVIEWING" ELSE "COLLECTING"
                     /\ UNCHANGED exc
    /\ UNCHANGED <<edits, calls, disk, tty>>

InitialStep == InitialStepWith(DistScripts, LbScripts)

\* wizard_summary fails with KeyError on a key that was never assigned
SummaryFails ==
    /\ ~(wizard_summary(gc) \subseteq DOMAIN gc)
    /\ exc' = "KeyError"
    /\ UNCHANGED <<state, gc, ran, edits, calls, disk, tty>>

\* wizard.py:621-623 with the answer yes: the loop ends
Confirm ==
    /\ state = "REVIEWING"
    /\ exc = NoneVal
    /\ \/ SummaryFails
       \/ /\ wizard_summary(gc) \subseteq DOMAIN gc
          /\ TRUE \in get_yn
          /\ state' = "FINALIZING"
          /\ UNCHANGED <<gc, ran, edits, exc, calls, disk, tty>>

\* wizard.py:621-628 with the answer no and the menu entry of selector k:
\* the entry's 'return' is called on global_config
EditStepWith(k, dists, lbs) ==
    /\ state = "REVIEWING"
    /\ exc = NoneVal
    /\ edits < MaxEdits
    /\ \/ SummaryFails
       \/ /\ wizard_summary(gc) \subseteq DOMAIN gc
          /\ FALSE \in get_yn
          /\ k + 1 \in get_selection(cfg_menu, FALSE)
          /\ LET selection == cfg_menu[k + 1].return
             IN  /\ selection # NoneVal
                 /\ \E o \in StepOutcomesWith(selection, gc, dists, lbs) :
                      /\ gc' = o.g
                      /\ edits' = edits + 1
                      /\ IF o.raised
                         THEN state' = "EDITING" /\ exc' = "Exception"
                         ELSE state' = "REVIEWING" /\ UNCHANGED exc
          /\ UNCHANGED <<ran, calls, disk, tty>>

EditStep(k) == EditStepWith(k, DistScripts, LbScripts)

\* The entry 'Done' taken as a request to start over
EditDone_starts_over ==
    /\ state = "REVIEWING"
    /\ exc = NoneVal
    /\ state' = "COLLECTING"
    /\ gc' = <<>>
    /\ ran' = <<>>
    /\ UNCHANGED <<edits, exc, calls, disk, tty>>

\* The entry 'Done' taken as a request to save, inside the loop
EditDone_saves ==
    /\ state = "REVIEWING"
    /\ exc = NoneVal
    /\ \E l \in wizard_save_config(gc, disk) :
         /\ calls' = calls \o l.calls
         /\ disk' = l.disk
    /\ UNCHANGED <<state, gc, ran, edits, exc, tty>>

\* wizard.py:621-628 with the answer no and the entry 'Done', whose
\* 'return' is None: nothing is called
EditDone ==
    /\ state = "REVIEWING"
    /\ exc = NoneVal
    /\ \/ SummaryFails
       \/ /\ wizard_summary(gc) \subseteq DOMAIN gc
          /\ FALSE \in get_yn
          /\ \E i \in get_selection(cfg_menu, FALSE) : cfg_menu[i].return = NoneVal
          /\ UNCHANGED vars

\* wizard_save_config in a loop that goes back to the review when it failed
Finalize_retries ==
    /\ state = "FINALIZING"
    /\ exc = NoneVal
    /\ \E l \in wizard_save_config(gc, disk) :
         /\ calls' = calls \o l.calls
         /\ disk' = l.disk
         /\ IF l.st # "return"
            THEN state' = "REVIEWING" /\ UNCHANGED exc
            ELSE state' = "DONE" /\ UNCHANGED exc
    /\ UNCHANGED <<gc, ran, edits, tty>>

\* wizard.py:630
Finalize ==
    /\ state = "FINALIZING"
    /\ exc = NoneVal
    /\ \E l \in wizard_save_config(gc, disk) :
         /\ calls' = calls \o l.calls
         /\ disk' = l.disk
         /\ IF l.st # "return"
            THEN exc' = l.st /\ UNCHANGED state
            ELSE state' = "DONE" /\ UNCHANGED exc
    /\ UNCHANGED <<gc, ran, edits, tty>>

\* wizard.py:636
UpdateLambda ==
    /\ state = "UPDATING"
    /\ exc = NoneVal
    /\ \E l \in update_lambda(disk) :
         /\ calls' = calls \o l.calls
         /\ disk' = l.disk
         /\ IF l.st # "return"
            THEN exc' = l.st /\ UNCHANGED state
            ELSE state' = "DONE" /\ UNCHANGED exc
    /\ UNCHANGED <<gc, ran, edits, tty>>

Next ==
    \/ InitialStep
    \/ Confirm
    \/ \E k \in 0..8 : EditStep(k)
    \/ EditDone
    \/ Finalize
    \/ UpdateLambda

Spec == Init /\ [][Next]_vars

----------------------------------------------------------------------------
(* The same session from the CloudFront step on, with an operator who can  *)
(* select a distribution or a load balancer a second time.  It follows the *)
(* session up to the confirmation.                                         *)

\* global_config after the first six steps, with a namespace, a region, an
\* address and every resource to be created
SitesStart ==
    [ namespace |-> "acme",
      aws_region |-> region_names[1],
      use_sns |-> TRUE,
      sns_email |-> "ops@example.com",
      create_iam_role |-> TRUE,
      iam_role_name |-> Format("lambda-letsencrypt-", "acme"),
      create_s3_cfg_bucket |-> TRUE,
      s3_cfg_bucket |-> Format("lambda-letsencrypt-config-", "acme"),
      use_http_challenges |-> TRUE,
      create_s3_challenge_bucket |-> TRUE,
      s3_challenge_bucket |-> Format("lambda-letsencrypt-challenges-", "acme") ]

InitSites ==
    /\ state = "COLLECTING"
    /\ gc = SitesStart
    /\ ran = SubSeq(InitialOrder, 1, 6)
    /\ edits = 0
    /\ exc = NoneVal
    /\ calls = <<>>
    /\ disk \in InitialDisks
    /\ tty = NoneVal

NextSites ==
    \/ InitialStepWith(RepeatDistScripts, RepeatLbScripts)
    \/ Confirm
    \/ \E k \in 0..8 : EditStepWith(k, RepeatDistScripts, RepeatLbScripts)
    \/ EditDone

SpecSites == InitSites /\ [][NextSites]_vars

----------------------------------------------------------------------------
(* The session from the first review on, with an operator who changes      *)
(* nothing: the review loop, the confirmation and wizard_save_config.      *)

\* global_config at the first review: SitesStart after wizard_cf,
\* wizard_elb and wizard_trigger have returned
ReviewedStarts ==
    LET returned(S) == { o.g : o \in { x \in S : ~x.raised } }
        cf == returned(wizard_cf(SitesStart))
        elb == UNION { returned(wizard_elb(g)) : g \in cf }
    IN  UNION { returned(wizard_trigger(g)) : g \in elb }

InitSave ==
    /\ state = "REVIEWING"
    /\ gc \in ReviewedStarts
    /\ ran = InitialOrder
    /\ edits = 0
    /\ exc = NoneVal
    /\ calls = <<>>
    /\ disk \in InitialDisks
    /\ tty = NoneVal

NextSave ==
    \/ Confirm
    \/ EditDone
    \/ Finalize

\* The interpreter goes on to wizard_save_config after the loop, and every
\* call wizard_save_config makes returns or raises
FairSave == InitSave /\ [][NextSave]_vars /\ WF_vars(Finalize)

----------------------------------------------------------------------------
(* One prompt of terminal.py answered line by line, inside a step of the   *)
(* initial pass.  tty is the call under way: its arguments, the lines      *)
(* typed so far, whether it has returned and what.                         *)

\* The lines the operator types
Lines == { "", "0", "1", "2", "x" }

\* str(selector)
Str(n) ==
    CASE n = 0 -> "0" [] n = 1 -> "1" [] n = 2 -> "2" [] n = 3 -> "3" [] n = 4 -> "4"
      [] n = 5 -> "5" [] n = 6 -> "6" [] n = 7 -> "7" [] n = 8 -> "8" [] n = 9 -> "9"

\* The options built from a list, wizard.py:36-43 and 49-56
Options(list) ==
    [i \in DOMAIN list |-> [selector |-> i - 1, prompt |-> list[i], return |-> list[i]]]

\* The lists a required or optional selection is made from; a listing
\* call can answer an empty list
PromptLists == { <<>>, bucket_list, region_names }

\* terminal.py:28-38, one turn of the while loop: the line read becomes
\* response and the loop ends unless it is empty and allow_empty is False
get_input_line(t, line) ==
    [t EXCEPT !.typed = Append(@, line),
              !.response = line,
              !.returned = ~(~t.allow_empty /\ line = "")]

\* get_selection that takes an empty line for None in every case
get_selection_line_always_none(t, line) ==
    LET choice == line
        hits == { i \in DOMAIN t.options : choice = Str(t.options[i].selector) }
    IN  IF choice = ""
        THEN [t EXCEPT !.typed = Append(@, line), !.returned = TRUE, !.selection = 0]
        ELSE IF hits # {}
        THEN [t EXCEPT !.typed = Append(@, line), !.returned = TRUE,
                       !.selection = CHOOSE i \in hits : \A j \in hits : i <= j]
        ELSE [t EXCEPT !.typed = Append(@, line)]

\* terminal.py:60-75, one turn of the while loop: choice is the line
\* get_input returns with allow_empty=True; selection is the position of
\* the first option whose selector is the choice, 0 for None
get_selection_line(t, line) ==
    LET choice == line
        hits == { i \in DOMAIN t.options : choice = Str(t.options[i].selector) }
    IN  IF choice = "" /\ t.allow_empty
        THEN [t EXCEPT !.typed = Append(@, line), !.returned = TRUE, !.selection = 0]
        ELSE IF hits # {}
        THEN [t EXCEPT !.typed = Append(@, line), !.returned = TRUE,
                       !.selection = CHOOSE i \in hits : \A j \in hits : i <= j]
        ELSE [t EXCEPT !.typed = Append(@, line)]

\* A call of get_input or get_selection that has read nothing yet
Prompt(fn, options, allow_empty) ==
    [fn |-> fn, options |-> options, allow_empty |-> allow_empty, typed |-> <<>>,
     returned |-> FALSE, response |-> NoneVal, selection |-> 0]

InitPrompt ==
    /\ state = "COLLECTING"
    /\ gc = SitesStart
    /\ ran = SubSeq(InitialOrder, 1, 6)
    /\ edits = 0
    /\ exc = NoneVal
    /\ calls = <<>>
    /\ disk = <<>>
    /\ tty \in { Prompt("get_input", <<>>, allow_empty) : allow_empty \in BOOLEAN }
           \cup { Prompt("get_selection", Options(list), allow_empty) :
                    list \in PromptLists, allow_empty \in BOOLEAN }

\* The operator types a line at get_input
GetInputLine ==
    /\ tty.fn = "get_input"
    /\ ~tty.returned
    /\ Len(tty.typed) < MaxTyped
    /\ \E line \in Lines : tty' = get_input_line(tty, line)
    /\ UNCHANGED <<state, gc, ran, edits, exc, calls, disk>>

\* The operator types a line at get_selection
GetSelectionLine ==
    /\ tty.fn = "get_selection"
    /\ ~tty.returned
    /\ Len(tty.typed) < MaxTyped
    /\ \E line \in Lines : tty' = get_selection_line(tty, line)
    /\ UNCHANGED <<state, gc, ran, edits, exc, calls, disk>>

NextPrompt ==
    \/ GetInputLine
    \/ GetSelectionLine

SpecPrompt == InitPrompt /\ [][NextPrompt]_vars

----------------------------------------------------------------------------
(* Properties *)

\* The keys each step function assigns
Owned(fn) ==
    CASE fn = "wizard_namespace" -> {"namespace"}
      [] fn = "wizard_region" -> {"aws_region"}
      [] fn = "wizard_sns" -> {"use_sns", "sns_email"}
      [] fn = "wizard_iam" -> {"create_iam_role", "iam_role_name"}
      [] fn = "wizard_s3_cfg_bucket" -> {"create_s3_cfg_bucket", "s3_cfg_bucket"}
      [] fn = "wizard_challenges" ->
            {"use_http_challenges", "create_s3_challenge_bucket", "s3_challenge_bucket"}
      [] fn = "wizard_cf" -> {"cf_sites", "cf_domains"}
      [] fn = "wizard_elb" -> {"elb_sites", "elb_domains"}
      [] fn = "wizard_trigger" -> {"create_cloudwatch_rule"}

\* The nine steps in the order of the menu labels and of the initial pass
StepOfEntry ==
    << "wizard_namespace", "wizard_region", "wizard_sns", "wizard_iam",
       "wizard_s3_cfg_bucket", "wizard_challenges", "wizard_cf", "wizard_elb",
       "wizard_trigger" >>

\* C1: re-running the step of menu entry k from the review loop leaves every
\* key that this step does not own with the value it had before.
C1_EditFrame ==
    [][ \A k \in 0..8 :
          EditStep(k) =>
            \A f \in (DOMAIN gc) \ Owned(StepOfEntry[k + 1]) :
               f \in DOMAIN gc' /\ gc'[f] = gc[f] ]_vars

\* C2: selecting menu entry k re-runs the step that ran k-th in the initial
\* pass: what the edit does to global_config is an outcome of that step.
C2_EntryRunsOwnStep ==
    [][ \A k \in 0..8 :
          EditStep(k) => \E o \in StepOutcomes(StepOfEntry[k + 1], gc) : gc' = o.g ]_vars

\* The keys wizard_save_config reads, wizard.py:416-491
SaveReads ==
    { "aws_region", "sns_email", "create_s3_cfg_bucket", "s3_cfg_bucket",
      "create_s3_challenge_bucket", "s3_challenge_bucket", "create_iam_role",
      "iam_role_name", "cf_domains", "elb_domains", "cf_sites", "elb_sites",
      "namespace", "create_cloudwatch_rule" }

IsPrefix(s, t) == Len(s) <= Len(t) /\ SubSeq(t, 1, Len(s)) = s

\* C3: the initial pass runs the nine steps once each in the fixed order,
\* REVIEWING is entered only after the last one, and by then every key the
\* summary and wizard_save_config read is assigned.
C3_InitialPass ==
    /\ IsPrefix(ran, StepOfEntry)
    /\ state = "COLLECTING" => Len(ran) < 9
    /\ state \in {"REVIEWING", "EDITING", "FINALIZING"} =>
         /\ ran = StepOfEntry
         /\ wizard_summary(gc) \cup SaveReads \subseteq DOMAIN gc

C3_Witness ==
    state = "REVIEWING" /\ edits = 0 /\ Len(ran) = 9 /\ "aws_region" \in DOMAIN gc

\* C4: while COLLECTING, REVIEWING or EDITING no remote call is made and no
\* file is written, and FINALIZING is entered only from REVIEWING.
C4_NothingBeforeConfirm ==
    [][ /\ state \in {"COLLECTING", "REVIEWING", "EDITING"} =>
             calls = <<>> /\ calls' = <<>> /\ disk' = disk
        /\ state' = "FINALIZING" => state \in {"REVIEWING", "FINALIZING"} ]_vars

C4_Witness ==
    state = "REVIEWING" /\ edits = MaxEdits /\ calls = <<>> /\ disk \in InitialDisks

\* C5: when an external query of a step fails, every key of global_config
\* that was assigned before the step started still has the value it had.
C5_StepAtomic ==
    [][ (state \in {"COLLECTING", "REVIEWING"} /\ exc = NoneVal /\ exc' # NoneVal)
          => \A f \in DOMAIN gc : f \in DOMAIN gc' /\ gc'[f] = gc[f] ]_vars

\* C6: a failure while a step is re-run from the review loop does not end
\* the session.
C6_EditFailureSurvives ==
    state \in {"REVIEWING", "EDITING"} => exc = NoneVal

CreationOps ==
    { "sns.get_or_create_topic", "s3.create_bucket", "s3.create_web_bucket",
      "iam.configure", "awslambda.create_function", "events.put_rule",
      "events.put_targets" }

\* C7: after a provisioning call that failed no further creation call is made.
C7_FirstFailureAborts ==
    \A i, j \in DOMAIN calls :
       (i < j /\ calls[i].op \in CreationOps /\ ~calls[i].ok)
          => calls[j].op \notin CreationOps

PackagingResults == { calls[i].ok : i \in { n \in DOMAIN calls : calls[n].op = "create_lambda_zip" } }

\* C8: after packaging reported failure no file exists at the archive path.
C8_NoPartialArchive ==
    FALSE \in PackagingResults => zip_file_name \notin DOMAIN disk

\* C9: after packaging reported success the archive holds exactly the
\* handler, the helper and the configuration under its canonical name, in
\* this order, whatever was at the destination before.
C9_ArchiveMembers ==
    TRUE \in PackagingResults =>
       /\ zip_file_name \in DOMAIN disk
       /\ disk[zip_file_name] = << "lambda_function.py", "simple_acme.py", "config.py" >>

\* update_lambda packaged with success over the archive that was there
C9_Witness ==
    /\ state = "DONE"
    /\ TRUE \in PackagingResults
    /\ generated_config_file_name \in DOMAIN disk
    /\ disk[generated_config_file_name] = [OLD |-> "old"]

\* The keys of templatevars at the substitution, wizard.py:414-467
MappingKeys ==
    { "SNS_ARN", "NOTIFY_EMAIL", "AWS_REGION", "S3_CONFIG_BUCKET",
      "S3_CHALLENGE_BUCKET", "DOMAINS", "SITES" }

\* The template read references a placeholder that the mapping lacks
BadTemplate(log) ==
    \E i \in DOMAIN log : log[i].op = "Template" /\ ~(log[i].arg \subseteq MappingKeys)

\* C10: with such a template finalization ends in an exception, having
\* written neither the configuration file nor an archive, uploaded nothing
\* and left global_config as it was.
C10_MissingPlaceholderFatal ==
    [][ (state = "FINALIZING" /\ BadTemplate(calls')) =>
          /\ exc' # NoneVal
          /\ state' = "FINALIZING"
          /\ disk' = disk
          /\ gc' = gc
          /\ \A i \in DOMAIN calls' :
                calls'[i].op \notin {"write", "create_lambda_zip", "awslambda.create_function"} ]_vars

\* the substitution itself raised, after the provisioning calls went through
C10_Witness ==
    state = "FINALIZING" /\ exc = "KeyError" /\ BadTemplate(calls)

\* The calls of a run that precede its first call of op
Before(log, op) ==
    LET at == { i \in DOMAIN log : log[i].op = op }
    IN  IF at = {} THEN log
        ELSE SubSeq(log, 1, (CHOOSE i \in at : \A j \in at : i <= j) - 1)

Rendered(log) == \E i \in DOMAIN log : log[i].op = "write"

\* The items of the list that a text written by json_dumps encodes
json_items(text) == text[2]

TopicFailed(log) ==
    \E i \in DOMAIN log : log[i].op = "sns.get_or_create_topic" /\ ~log[i].ok

\* C12: every run of wizard_save_config that reaches the substitution has
\* all seven keys in templatevars, and in the text written SNS_ARN and
\* NOTIFY_EMAIL are both None when notifications are off or no topic was
\* obtained, and S3_CHALLENGE_BUCKET is None when HTTP challenges are off.
C12_AllPlaceholders ==
    /\ (state = "FINALIZING" /\ exc = NoneVal /\ calls = <<>>) =>
          \A l \in wizard_save_config(gc, disk) :
             (Rendered(l.calls) \/ l.st = "KeyError")
                => MappingKeys \subseteq DOMAIN l.templatevars
    /\ (state \in {"FINALIZING", "DONE"} /\ Rendered(calls)) =>
          LET text == disk[generated_config_file_name]
          IN  /\ MappingKeys \subseteq DOMAIN text
              /\ (~gc.use_sns \/ gc.sns_email = "" \/ TopicFailed(calls)) =>
                    text.SNS_ARN = NoneVal /\ text.NOTIFY_EMAIL = NoneVal
              /\ ~gc.use_http_challenges => text.S3_CHALLENGE_BUCKET = NoneVal

\* a text written after the topic was asked for and not obtained, with
\* HTTP challenges off
C12_Witness ==
    /\ state = "DONE"
    /\ Rendered(calls)
    /\ gc.use_sns /\ TopicFailed(calls)
    /\ ~gc.use_http_challenges
    /\ disk[generated_config_file_name].NOTIFY_EMAIL = NoneVal

\* No two records of a domain list have the same DOMAIN
NoRepeat(domains) ==
    \A i, j \in DOMAIN domains : i # j => domains[i]["DOMAIN"] # domains[j]["DOMAIN"]

\* C13: whatever the operator selected in the CloudFront and ELB steps, no
\* name occurs twice in cf_domains and none twice in elb_domains.
C13_DomainUniqueness ==
    exc = NoneVal =>
       /\ "cf_domains" \in DOMAIN gc => NoRepeat(gc.cf_domains)
       /\ "elb_domains" \in DOMAIN gc => NoRepeat(gc.elb_domains)

\* A Domain record names a zone only with dns-01 among its methods and a
\* distribution only with http-01 among them
MethodsMatch(d) ==
    /\ "ROUTE53_ZONE_ID" \in DOMAIN d => "dns-01" \in Range(d.VALIDATION_METHODS)
    /\ "CLOUDFRONT_ID" \in DOMAIN d => "http-01" \in Range(d.VALIDATION_METHODS)

\* C14: every record of cf_domains and elb_domains satisfies MethodsMatch,
\* and every record of elb_domains has the methods <<"dns-01">> and a zone id.
C14_DomainRecords ==
    /\ "cf_domains" \in DOMAIN gc =>
          \A i \in DOMAIN gc.cf_domains : MethodsMatch(gc.cf_domains[i])
    /\ "elb_domains" \in DOMAIN gc =>
          \A i \in DOMAIN gc.elb_domains :
             LET d == gc.elb_domains[i]
             IN  /\ MethodsMatch(d)
                 /\ d.VALIDATION_METHODS = << "dns-01" >>
                 /\ "ROUTE53_ZONE_ID" \in DOMAIN d
                 /\ d.ROUTE53_ZONE_ID \in { zone.Id : zone \in Range(route53_list) }

\* at the review: a distribution's domain validated over HTTP only, one
\* validated over DNS only, and a load balancer's domain
C14_Witness ==
    /\ state = "REVIEWING"
    /\ \E i, j \in DOMAIN gc.cf_domains :
          /\ gc.cf_domains[i].VALIDATION_METHODS = << "http-01" >>
          /\ "ROUTE53_ZONE_ID" \notin DOMAIN gc.cf_domains[i]
          /\ gc.cf_domains[j].VALIDATION_METHODS = << "dns-01" >>
          /\ "ROUTE53_ZONE_ID" \in DOMAIN gc.cf_domains[j]
    /\ Len(gc.elb_domains) > 0

\* The names in a list of Domain records
Names(domains) == { domains[i]["DOMAIN"] : i \in DOMAIN domains }

\* C15: at the review and when wizard_save_config starts, the DOMAINS of
\* every site of cf_sites are names of cf_domains and the DOMAINS of every
\* site of elb_sites are names of elb_domains.
C15_SiteDomainsListed ==
    state \in {"REVIEWING", "FINALIZING"} =>
       /\ \A i \in DOMAIN gc.cf_sites :
             Range(gc.cf_sites[i].DOMAINS) \subseteq Names(gc.cf_domains)
       /\ \A i \in DOMAIN gc.elb_sites :
             Range(gc.elb_sites[i].DOMAINS) \subseteq Names(gc.elb_domains)

\* confirmed after an edit, with a site of each kind that has a domain
C15_Witness ==
    /\ state = "FINALIZING"
    /\ edits > 0
    /\ \E i \in DOMAIN gc.cf_sites : gc.cf_sites[i].DOMAINS # <<>>
    /\ \E i \in DOMAIN gc.elb_sites : gc.elb_sites[i].DOMAINS # <<>>

\* The addresses a topic was requested for
TopicRequests(log) ==
    { log[i].arg : i \in { n \in DOMAIN log : log[n].op = "sns.get_or_create_topic" } }

\* C16: once wizard_sns has run, use_sns is true exactly when sns_email is
\* not empty, and a wizard_save_config that has read the template has
\* requested a topic, for that address, exactly when sns_email is not empty.
C16_SnsConsistent ==
    /\ "wizard_sns" \in Range(ran) =>
          /\ {"use_sns", "sns_email"} \subseteq DOMAIN gc
          /\ gc.use_sns <=> gc.sns_email # ""
    /\ (state \in {"FINALIZING", "DONE"}
          /\ \E i \in DOMAIN calls : calls[i].op = "Template") =>
          TopicRequests(calls) = IF gc.sns_email # "" THEN { gc.sns_email } ELSE {}

\* finalized with a topic requested, after an edit
C16_Witness ==
    /\ state = "DONE"
    /\ edits > 0
    /\ gc.use_sns
    /\ TopicRequests(calls) = { "ops@example.com" }

At(log, op) == { i \in DOMAIN log : log[i].op = op }

\* C17: in the calls of a session, iam.configure that returned is followed
\* at once by three sleeps of five seconds, there is no other sleep, and
\* awslambda.create_function comes after the last of them; when the role is
\* not to be created, or iam.configure failed, there is no sleep at all.
C17_WaitBeforeUpload ==
    /\ \A i \in At(calls, "iam.configure") :
          calls[i].ok =>
             /\ i + 3 <= Len(calls)
             /\ \A n \in 1..3 : calls[i + n] = Call("time.sleep", "5", TRUE)
             /\ \A j \in At(calls, "awslambda.create_function") : j > i + 3
    /\ \A i \in At(calls, "iam.configure") :
          \A j \in At(calls, "awslambda.create_function") : i < j /\ calls[i].ok
    /\ Cardinality(At(calls, "time.sleep")) =
          3 * Cardinality({ i \in At(calls, "iam.configure") : calls[i].ok })
    /\ Cardinality(At(calls, "iam.configure")) <= 1
    /\ ("create_iam_role" \in DOMAIN gc /\ ~gc.create_iam_role) =>
          At(calls, "time.sleep") = {} /\ At(calls, "iam.configure") = {}

\* the function was uploaded after the role was created
C17_Witness ==
    /\ state = "DONE"
    /\ "create_iam_role" \in DOMAIN gc /\ gc.create_iam_role
    /\ At(calls, "iam.configure") # {}
    /\ At(calls, "awslambda.create_function") # {}

\* The session was started with --update-lambda
UpdatePath == state = "UPDATING" \/ (state = "DONE" /\ ran = <<>>)

\* C18: a session started with --update-lambda runs no configuration step
\* and makes no call but create_lambda_zip and update_function_code; the
\* latter is called at most once, right after a packaging that reported
\* success, for a name of the function list and with the archive just
\* built on disk, and it is called whenever packaging succeeded and the
\* function list was fetched.
C18_UpdateOnly ==
    UpdatePath =>
       /\ gc = <<>> /\ ran = <<>> /\ edits = 0
       /\ \A i \in DOMAIN calls :
             calls[i].op \in {"create_lambda_zip", "awslambda.update_function_code"}
       /\ Cardinality(At(calls, "create_lambda_zip")) <= 1
       /\ Cardinality(At(calls, "awslambda.update_function_code")) <= 1
       /\ \A j \in At(calls, "awslambda.update_function_code") :
             /\ j = 2
             /\ calls[1] = Call("create_lambda_zip", zip_file_name, TRUE)
             /\ calls[j].arg \in Range(function_names)
             /\ disk[zip_file_name] = << lambda_file_name, acme_challenge_file_name,
                                         config_file_name >>
       /\ (state = "DONE" /\ TRUE \in PackagingResults) =>
             At(calls, "awslambda.update_function_code") # {}

\* the code of a listed function was updated over an archive that was
\* there before
C18_Witness ==
    /\ state = "DONE"
    /\ ran = <<>>
    /\ calls = << Call("create_lambda_zip", zip_file_name, TRUE),
                  Call("awslambda.update_function_code", function_names[2], TRUE) >>

\* C19: when wizard_save_config starts, the name of every resource it is to
\* create is the one derived from the namespace the function name is
\* derived from.
C19_NamesFollowNamespace ==
    state = "FINALIZING" =>
       /\ gc.create_iam_role =>
             gc.iam_role_name = Format("lambda-letsencrypt-", gc.namespace)
       /\ gc.create_s3_cfg_bucket =>
             gc.s3_cfg_bucket = Format("lambda-letsencrypt-config-", gc.namespace)
       /\ gc.create_s3_challenge_bucket =>
             gc.s3_challenge_bucket = Format("lambda-letsencrypt-challenges-", gc.namespace)

UploadOps == { "awslambda.create_function", "awslambda.update_function_code" }

TriggerOps == { "events.put_rule", "events.put_targets" }

\* C20: in a session of either kind an upload is preceded by a
\* create_lambda_zip that returned True, and after a create_lambda_zip that
\* returned False the session has ended with no upload, no trigger and no
\* further call.
C20_UploadAfterPackaging ==
    /\ \A j \in DOMAIN calls :
          calls[j].op \in UploadOps =>
             \E i \in 1..(j - 1) : calls[i] = Call("create_lambda_zip", zip_file_name, TRUE)
    /\ FALSE \in PackagingResults =>
          /\ state = "DONE" /\ exc = NoneVal
          /\ calls[Len(calls)] = Call("create_lambda_zip", zip_file_name, FALSE)
          /\ \A j \in DOMAIN calls : calls[j].op \notin UploadOps \cup TriggerOps

\* the wizard ended at a failed packaging although a trigger was asked for
C20_Witness ==
    /\ state = "DONE"
    /\ Len(ran) = 9
    /\ gc.create_cloudwatch_rule
    /\ Rendered(calls)
    /\ FALSE \in PackagingResults

\* C21: events.put_rule and events.put_targets are each called at most
\* once in a session, only with create_cloudwatch_rule true and after an
\* awslambda.create_function that returned a function, the rule for the
\* FunctionName and the target for the FunctionArn of what that call
\* returned; after a create_function that failed neither is called.
C21_TriggerOnce ==
    /\ Cardinality(At(calls, "events.put_rule")) <= 1
    /\ Cardinality(At(calls, "events.put_targets")) <= 1
    /\ \A j \in At(calls, "events.put_rule") \cup At(calls, "events.put_targets") :
          /\ Len(ran) = 9 /\ gc.create_cloudwatch_rule
          /\ \E i \in At(calls, "awslambda.create_function") :
                /\ i < j /\ calls[i].ok
                /\ calls[j].arg = IF calls[j].op = "events.put_rule"
                                  THEN create_function(calls[i].arg).FunctionName
                                  ELSE create_function(calls[i].arg).FunctionArn
          /\ \A i \in At(calls, "awslambda.create_function") : calls[i].ok
    /\ \A j \in At(calls, "events.put_targets") :
          calls[j - 1] = Call("events.put_rule", calls[j - 1].arg, TRUE)
    /\ Cardinality(At(calls, "awslambda.create_function")) <= 1

\* the trigger was registered for the function created under namespace beta
C21_Witness ==
    /\ state = "DONE"
    /\ Len(ran) = 9 /\ gc.create_cloudwatch_rule
    /\ \E i \in DOMAIN calls : calls[i] = Call("awslambda.create_function",
                                                 "lambda-letsencrypt-beta", TRUE)
    /\ \E j \in DOMAIN calls : calls[j] = Call("events.put_rule",
                                                 "lambda-letsencrypt-beta", TRUE)
    /\ calls[Len(calls)] = Call("events.put_targets", LambdaArn, TRUE)

\* C22: once wizard_challenges has assigned its keys, without HTTP
\* challenges create_s3_challenge_bucket is false and s3_challenge_bucket
\* is None, and wizard_save_config does not call s3.create_web_bucket; with
\* HTTP challenges s3_challenge_bucket is a bucket name.
C22_ChallengeBucketGated ==
    "use_http_challenges" \in DOMAIN gc =>
       /\ {"create_s3_challenge_bucket", "s3_challenge_bucket"} \subseteq DOMAIN gc
       /\ ~gc.use_http_challenges =>
             /\ ~gc.create_s3_challenge_bucket
             /\ gc.s3_challenge_bucket = NoneVal
             /\ At(calls, "s3.create_web_bucket") = {}
       /\ gc.use_http_challenges =>
             gc.s3_challenge_bucket \in Range(bucket_list) \cup
                { Format("lambda-letsencrypt-challenges-", ns) : ns \in NamespaceInputs }

\* finalized without HTTP challenges after an edit: the role was created
\* and the text written, and no challenge bucket was asked for
C22_Witness ==
    /\ state = "DONE"
    /\ Len(ran) = 9 /\ edits > 0
    /\ ~gc.use_http_challenges
    /\ At(calls, "iam.configure") # {}
    /\ Rendered(calls)

\* The aliases that a list of sites names, site after site, each with the
\* distribution of its site
RECURSIVE SiteAliases(_)
SiteAliases(sites) ==
    IF sites = <<>> THEN <<>>
    ELSE [n \in DOMAIN Head(sites).DOMAINS |->
            [alias |-> Head(sites).DOMAINS[n], id |-> Head(sites).CLOUDFRONT_ID]]
         \o SiteAliases(Tail(sites))

\* C23: after wizard_cf has returned, every site of cf_sites lists all the
\* aliases of its distribution, cf_domains has one record for each alias of
\* each site, in the order of the sites and of their aliases, a record has
\* http-01 among its methods exactly when it has CLOUDFRONT_ID, which is
\* then the id of its distribution, and a record for which no method was
\* chosen is there with an empty list.
C23_CloudFrontRecords ==
    (exc = NoneVal /\ "cf_domains" \in DOMAIN gc) =>
       LET expected == SiteAliases(gc.cf_sites)
       IN  /\ \A i \in DOMAIN gc.cf_sites :
                 \E n \in DOMAIN cf_dist_list :
                    /\ cf_dist_list[n].Id = gc.cf_sites[i].CLOUDFRONT_ID
                    /\ cf_dist_list[n].Aliases = gc.cf_sites[i].DOMAINS
           /\ Len(gc.cf_domains) = Len(expected)
           /\ \A j \in DOMAIN gc.cf_domains :
                 LET d == gc.cf_domains[j]
                 IN  /\ d["DOMAIN"] = expected[j].alias
                     /\ d.VALIDATION_METHODS \in
                           { <<>>, <<"dns-01">>, <<"http-01">>, <<"dns-01", "http-01">> }
                     /\ "http-01" \in Range(d.VALIDATION_METHODS)
                           <=> "CLOUDFRONT_ID" \in DOMAIN d
                     /\ "CLOUDFRONT_ID" \in DOMAIN d => d.CLOUDFRONT_ID = expected[j].id
                     /\ d.VALIDATION_METHODS = <<"http-01">> =>
                           DOMAIN d = {"DOMAIN", "VALIDATION_METHODS", "CLOUDFRONT_ID"}

\* the distribution with two aliases was selected: the first alias is
\* validated over HTTP only, for the second no method was chosen
C23_Witness ==
    /\ state = "REVIEWING"
    /\ gc.cf_sites = << [CLOUDFRONT_ID |-> "E2",
                         DOMAINS |-> <<"b.example.com", "a.example.com">>] >>
    /\ gc.cf_domains =
          << [k \in {"DOMAIN", "VALIDATION_METHODS", "CLOUDFRONT_ID"} |->
                CASE k = "DOMAIN" -> "b.example.com"
                  [] k = "VALIDATION_METHODS" -> <<"http-01">>
                  [] k = "CLOUDFRONT_ID" -> "E2"],
             [k \in {"DOMAIN", "VALIDATION_METHODS"} |->
                IF k = "DOMAIN" THEN "a.example.com" ELSE <<>>] >>

\* The line makes the prompt return
Accepted(t, line) ==
    IF t.fn = "get_input"
    THEN t.allow_empty \/ line # ""
    ELSE \/ line = "" /\ t.allow_empty
         \/ \E i \in DOMAIN t.options : Str(t.options[i].selector) = line

\* C24: while a prompt is answered global_config stays as it was and no
\* exception is raised; every line before the last one typed was not
\* accepted and repeated the prompt, and the prompt has returned exactly
\* when the last line is accepted: get_input the line, which is not empty
\* when allow_empty is False, get_selection the option whose selector the
\* line is, or None for an empty line with allow_empty.  A selection with
\* allow_empty False over an empty list has not returned.
C24_Reprompt ==
    LET last == tty.typed[Len(tty.typed)]
    IN  /\ gc = SitesStart /\ exc = NoneVal /\ state = "COLLECTING"
        /\ \A n \in 1..(Len(tty.typed) - 1) : ~Accepted(tty, tty.typed[n])
        /\ tty.returned <=> (tty.typed # <<>> /\ Accepted(tty, last))
        /\ (tty.returned /\ tty.fn = "get_input") =>
              /\ tty.response = last
              /\ ~tty.allow_empty => tty.response # ""
              /\ tty.response \in get_input(Lines, tty.allow_empty)
        /\ (tty.returned /\ tty.fn = "get_selection") =>
              /\ tty.selection \in get_selection(tty.options, tty.allow_empty)
              /\ tty.selection = 0 => (last = "" /\ tty.allow_empty)
              /\ tty.selection # 0 => Str(tty.options[tty.selection].selector) = last
        /\ (tty.fn = "get_selection" /\ ~tty.allow_empty /\ tty.options = <<>>) =>
              ~tty.returned

\* a required selection of a region: a letter, then an empty line, then
\* the selector of the second region
C24_Witness ==
    /\ tty.fn = "get_selection"
    /\ ~tty.allow_empty
    /\ tty.options = Options(region_names)
    /\ tty.typed = << "x", "", "1" >>
    /\ tty.returned /\ tty.selection = 2

\* C25: a turn of the review loop that does not end it stays in the review
\* (or dies in the step it re-ran), makes no call, writes no file, re-runs
\* at most one step, and with no step re-run, as with the entry Done,
\* leaves global_config as it was; wizard_save_config starts only from the
\* review, by the answer yes, which changes nothing else.
C25_DoneRunsNothing ==
    [][ /\ (state = "REVIEWING" /\ state' # "FINALIZING") =>
             /\ state' \in {"REVIEWING", "EDITING"}
             /\ calls' = calls /\ disk' = disk /\ ran' = ran
             /\ edits' \in {edits, edits + 1}
             /\ edits' = edits => gc' = gc
        /\ (state # "FINALIZING" /\ state' = "FINALIZING") =>
             /\ state = "REVIEWING"
             /\ gc' = gc /\ edits' = edits /\ ran' = ran
             /\ calls' = <<>> /\ disk' = disk ]_vars

\* confirmed at the second review, after one turn that re-ran a step
C25_Witness ==
    state = "FINALIZING" /\ edits = 1 /\ exc = NoneVal /\ calls = <<>>

\* The process has ended: wizard() or update_lambda() returned, or an
\* exception escaped
Ended == state = "DONE" \/ exc # NoneVal

\* C26: once wizard_save_config has been started it ends, by a return on
\* success, after a failed packaging or a failed upload, or by the exception
\* of a failed call; from then on nothing changes, the session never goes
\* back to the steps or the review, and wizard_save_config has made at
\* most fourteen calls.
C26_FinalizationEnds ==
    /\ (state = "FINALIZING") ~> Ended
    /\ [][ /\ state \in {"FINALIZING", "DONE"} => state' \in {"FINALIZING", "DONE"}
           /\ Ended => UNCHANGED vars ]_vars
    /\ [](Len(calls) <= 14)

\* returned after the upload failed, the role and both buckets created
C26_Witness ==
    /\ state = "DONE"
    /\ Len(ran) = 9
    /\ \E i \in DOMAIN calls : calls[i].op = "awslambda.create_function" /\ ~calls[i].ok
    /\ At(calls, "s3.create_web_bucket") # {}
    /\ At(calls, "s3.create_bucket") # {}

====
